---- MODULE Spec2Model ----
(***************************************************************************)
(* MAGI-1 AI modal project, frontend.                                      *)
(*                                                                         *)
(* A state-machine model of the React components App, VideoGenerator and   *)
(* AIModal.  One step of the model is one browser event (a click, a timer  *)
(* tick, the settlement of an HTTP request) together with the render and   *)
(* the effects React runs for it.  A function created during a render      *)
(* keeps the state values of that render (its closure): the model stores   *)
(* the captured values next to the timer, request or cleanup that holds    *)
(* them.                                                                   *)
(***************************************************************************)
EXTENDS Integers, Sequences, FiniteSets, Bags, TLC

VARIABLES
    activeTab,      \* App: 'home' | 'video-generator'
    mounts,         \* number of times a VideoGenerator has been mounted
    generator,      \* useState values of the mounted VideoGenerator
    cleanup,        \* statusInterval captured by the [taskId] effect's cleanup
    timers,         \* active setInterval timers with their checkTaskStatus closure
    generateReqs,   \* POST /api/generate-video requests in flight
    statusReqs,     \* GET /api/video-generation-status requests in flight
    tasksCreated,   \* number of task ids the backend has handed out
    isModalOpen,    \* App: whether the AIModal is shown
    modal,          \* useState values of the AIModal
    modalReqs,      \* process, analyze-video and upload-video requests in flight
    viewer          \* useState values of the VideoViewer the AIModal renders

generatorVars == <<mounts, generator, cleanup, timers, generateReqs,
                   statusReqs, tasksCreated>>

modalVars == <<isModalOpen, modal, modalReqs, viewer>>

vars == <<activeTab, generatorVars, modalVars>>

----------------------------------------------------------------------------
(* Bounds of the model *)

MaxMounts == 2      \* VideoGenerator instances mounted in one run
MaxTasks == 2       \* task ids handed out by the backend
MaxInFlight == 2    \* requests of one kind outstanding at a time
MaxEdits == 1       \* settings fields that differ from the template

----------------------------------------------------------------------------
(* Values *)

\* useState(null) for taskStatus and generatedVideo (objects or null)
null == [null |-> TRUE]

\* useState(null) for taskId and statusInterval: task ids and interval
\* handles are positive numbers, 0 stands for null (both are falsy)
noId == 0

\* Prompts are sequences of characters so that trim() is computed
Prompts == {<<>>, <<" ">>, <<"a", " ">>}

IsSpace(c) == c \in {" ", "\t", "\n"}

RECURSIVE TrimStart(_)
TrimStart(s) ==
    IF s = <<>> THEN <<>>
    ELSE IF IsSpace(Head(s)) THEN TrimStart(Tail(s)) ELSE s

RECURSIVE TrimEnd(_)
TrimEnd(s) ==
    IF s = <<>> THEN <<>>
    ELSE IF IsSpace(s[Len(s)]) THEN TrimEnd(SubSeq(s, 1, Len(s) - 1)) ELSE s

\* String.prototype.trim
Trim(s) == TrimEnd(TrimStart(s))

Providers == {"replicate", "stability", "runway"}

\* cfg_scale is kept in tenths (7.5 is 75)
settingsTemplates ==
    [replicate |-> [num_frames |-> 24, fps |-> 8, width |-> 576,
                    height |-> 320, motion_bucket_id |-> 127],
     stability |-> [duration |-> 3, width |-> 768, height |-> 432,
                    cfg_scale |-> 75],
     runway    |-> [num_steps |-> 50, fps |-> 24]]

\* The input widgets renderSettings shows for a provider, each with the
\* key it passes to updateSetting and a value the widget can produce (its min)
SettingsFields(provider) ==
    CASE provider = "replicate" ->
           {<<"num_frames", 16>>, <<"fps", 1>>, <<"width", 320>>,
            <<"height", 384>>, <<"motion_bucket_id", 1>>}
      [] provider = "stability" ->
           {<<"duration", 1>>, <<"width", 384>>, <<"height", 384>>,
            <<"cfg_scale", 10>>}
      [] provider = "runway" ->
           {<<"num_steps", 20>>, <<"fps", 15>>}
      [] OTHER -> {}

\* { ...settings, [key]: value }
Spread(settings, key, value) ==
    [k \in (DOMAIN settings) \cup {key} |->
        IF k = key THEN value ELSE settings[k]]

\* Bodies the status endpoint can answer with; progress in percent
Pending == [status |-> "pending", progress |-> 0]
Running30 == [status |-> "running", progress |-> 30]
Running70 == [status |-> "running", progress |-> 70]
Completed == [status |-> "completed", progress |-> 100,
              video_info |-> [file_id |-> "gen", filename |-> "gen.mp4"]]
CompletedNoInfo == [status |-> "completed", progress |-> 100]
Failed == [status |-> "failed", progress |-> 30, error |-> "provider error"]

StatusBodies == {Pending, Running30, Running70, Completed, CompletedNoInfo, Failed}

\* err.response?.data?.detail: "" stands for a failure without detail
Details == {"", "quota exceeded"}

PromptMissing == "Veuillez entrer une description pour la vidéo"
StatusCheckFailed == "Erreur lors de la vérification du statut de la génération"

GenerateError(detail) ==
    "Erreur: " \o (IF detail # "" THEN detail
                   ELSE "Impossible de communiquer avec le serveur")

----------------------------------------------------------------------------
(* VideoGenerator *)

GeneratorInit ==
    [prompt |-> <<>>,
     provider |-> "replicate",
     settings |-> settingsTemplates["replicate"],
     loading |-> FALSE,
     error |-> "",
     taskId |-> noId,
     taskStatus |-> null,
     generatedVideo |-> null,
     statusInterval |-> noId,
     showAdvancedSettings |-> FALSE]

\* renderContent: the VideoGenerator is rendered on its tab only
mounted == activeTab = "video-generator"

\* clearInterval(handle)
ClearInterval(T, handle) == {t \in T : t.handle # handle}

\* the condition without its !statusInterval conjunct
StartsIntervalUnguarded(taskId, statusInterval) == taskId # noId

\* the condition under which the [taskId] effect starts the poll timer
StartsInterval(taskId, statusInterval) ==
    taskId # noId /\ statusInterval = noId

\* the effect handing setInterval a callback that holds the task id before
\* this one
TaskIdEffectOlderCallback(g, c, T) ==
    LET cleared == IF c # noId THEN ClearInterval(T, c) ELSE T
        start == StartsInterval(g.taskId, g.statusInterval)
        interval == [handle |-> g.taskId, live |-> TRUE, taskId |-> g.taskId - 1,
                     statusInterval |-> g.statusInterval]
    IN  [timers |-> IF start THEN cleared \cup {interval} ELSE cleared,
         generator |-> IF start THEN [g EXCEPT !.statusInterval = interval.handle]
                       ELSE g,
         cleanup |-> g.statusInterval]

\* useEffect(..., [taskId]): the cleanup left by the previous run, then the
\* body, on the render g in which taskId changed.  The interval's callback
\* and the new cleanup keep the values of that render.  setInterval returns
\* a handle no other interval has: the model uses the id of the task whose
\* arrival starts the interval.
TaskIdEffect(g, c, T) ==
    LET cleared == IF c # noId THEN ClearInterval(T, c) ELSE T
        start == StartsInterval(g.taskId, g.statusInterval)
        interval == [handle |-> g.taskId, live |-> TRUE, taskId |-> g.taskId,
                     statusInterval |-> g.statusInterval]
    IN  [timers |-> IF start THEN cleared \cup {interval} ELSE cleared,
         generator |-> IF start THEN [g EXCEPT !.statusInterval = interval.handle]
                       ELSE g,
         cleanup |-> g.statusInterval]

\* the test taking 'running' for a final status as well
IsTerminalOrRunning(s) ==
    s # null /\ s.status \in {"completed", "failed", "running"}

IsTerminal(s) == s # null /\ s.status \in {"completed", "failed"}

\* the effect stopping the timer on 'completed' alone
TaskStatusEffectCompletedOnly(g, T) ==
    IF g.taskStatus # null /\ g.taskStatus.status = "completed"
    THEN LET stop == g.statusInterval # noId
             video == "video_info" \in DOMAIN g.taskStatus
         IN  [timers |-> IF stop THEN ClearInterval(T, g.statusInterval) ELSE T,
              generator |->
                 [g EXCEPT !.statusInterval = IF stop THEN noId ELSE @,
                           !.generatedVideo =
                               IF video THEN g.taskStatus.video_info ELSE @]]
    ELSE [timers |-> T, generator |-> g]

\* the effect without its setGeneratedVideo
TaskStatusEffectNoVideo(g, T) ==
    IF IsTerminal(g.taskStatus)
    THEN LET stop == g.statusInterval # noId
         IN  [timers |-> IF stop THEN ClearInterval(T, g.statusInterval) ELSE T,
              generator |-> [g EXCEPT !.statusInterval = IF stop THEN noId ELSE @]]
    ELSE [timers |-> T, generator |-> g]

\* the effect copying video_info without testing that the response has one
TaskStatusEffectUnchecked(g, T) ==
    IF IsTerminal(g.taskStatus)
    THEN LET stop == g.statusInterval # noId
         IN  [timers |-> IF stop THEN ClearInterval(T, g.statusInterval) ELSE T,
              generator |->
                 [g EXCEPT !.statusInterval = IF stop THEN noId ELSE @,
                           !.generatedVideo =
                               IF g.taskStatus.status # "completed" THEN @
                               ELSE IF "video_info" \in DOMAIN g.taskStatus
                               THEN g.taskStatus.video_info
                               ELSE null]]
    ELSE [timers |-> T, generator |-> g]

\* the effect ending the loading state with the task
TaskStatusEffectEndsLoading(g, T) ==
    IF IsTerminal(g.taskStatus)
    THEN LET stop == g.statusInterval # noId
             video == g.taskStatus.status = "completed"
                      /\ "video_info" \in DOMAIN g.taskStatus
         IN  [timers |-> IF stop THEN ClearInterval(T, g.statusInterval) ELSE T,
              generator |->
                 [g EXCEPT !.statusInterval = IF stop THEN noId ELSE @,
                           !.loading = FALSE,
                           !.generatedVideo =
                               IF video THEN g.taskStatus.video_info ELSE @]]
    ELSE [timers |-> T, generator |-> g]

\* useEffect(..., [taskStatus]) on the render g in which taskStatus changed
TaskStatusEffect(g, T) ==
    IF IsTerminal(g.taskStatus)
    THEN LET stop == g.statusInterval # noId
             video == g.taskStatus.status = "completed"
                      /\ "video_info" \in DOMAIN g.taskStatus
         IN  [timers |-> IF stop THEN ClearInterval(T, g.statusInterval) ELSE T,
              generator |->
                 [g EXCEPT !.statusInterval = IF stop THEN noId ELSE @,
                           !.generatedVideo =
                               IF video THEN g.taskStatus.video_info ELSE @]]
    ELSE [timers |-> T, generator |-> g]

\* what the unmounted instance leaves behind: its timers and requests go on,
\* their setState calls change nothing any more
Orphan(r) == [r EXCEPT !.live = FALSE]

OrphanBag(B) ==
    LET S == {Orphan(r) : r \in BagToSet(B)}
    IN  [o \in S |-> CopiesIn(o, B) + CopiesIn([o EXCEPT !.live = TRUE], B)]

\* the cleanup of the [taskId] effect, as the unmount runs it
UnmountCleanup(T, c) == IF c # noId THEN ClearInterval(T, c) ELSE T

\* App: the nav buttons.  Leaving the tab unmounts the VideoGenerator (its
\* effect cleanups run, its state is dropped); entering mounts a new one.
\* The open modal's overlay covers the page, nav buttons included.
SetActiveTab(tab) ==
    /\ ~isModalOpen
    /\ tab # activeTab
    /\ activeTab' = tab
    /\ generator' = GeneratorInit
    /\ cleanup' = noId
    /\ IF tab = "video-generator"
       THEN /\ mounts < MaxMounts
            /\ mounts' = mounts + 1
            /\ UNCHANGED <<timers, generateReqs, statusReqs>>
       ELSE /\ mounts' = mounts
            /\ timers' = {Orphan(t) : t \in UnmountCleanup(timers, cleanup)}
            /\ generateReqs' = OrphanBag(generateReqs)
            /\ statusReqs' = OrphanBag(statusReqs)
    /\ UNCHANGED <<tasksCreated, modalVars>>

\* textarea onChange, disabled={loading}
SetPrompt(p) ==
    /\ mounted
    /\ ~generator.loading
    /\ p # generator.prompt
    /\ generator' = [generator EXCEPT !.prompt = p]
    /\ UNCHANGED <<activeTab, mounts, cleanup, timers, generateReqs,
                   statusReqs, tasksCreated,
                   modalVars>>

\* the effect merging the template into the settings it finds
ProviderEffectMerging(settings, provider) ==
    LET t == IF provider \in DOMAIN settingsTemplates
             THEN settingsTemplates[provider]
             ELSE settingsTemplates["replicate"]
    IN  [k \in (DOMAIN settings) \cup (DOMAIN t) |->
            IF k \in DOMAIN t THEN t[k] ELSE settings[k]]

\* useEffect(..., [provider])
ProviderEffect(settings, provider) ==
    IF provider \in DOMAIN settingsTemplates
    THEN settingsTemplates[provider]
    ELSE settingsTemplates["replicate"]

\* select onChange, disabled={loading}, with the [provider] effect
SetProvider(p) ==
    /\ mounted
    /\ ~generator.loading
    /\ p # generator.provider
    /\ generator' = [generator EXCEPT
                        !.provider = p,
                        !.settings = ProviderEffect(generator.settings, p)]
    /\ UNCHANGED <<activeTab, mounts, cleanup, timers, generateReqs,
                   statusReqs, tasksCreated,
                   modalVars>>

\* settings-toggle-button, disabled={loading}
ToggleAdvancedSettings ==
    /\ mounted
    /\ ~generator.loading
    /\ generator' = [generator EXCEPT !.showAdvancedSettings = ~@]
    /\ UNCHANGED <<activeTab, mounts, cleanup, timers, generateReqs,
                   statusReqs, tasksCreated,
                   modalVars>>

\* the fields of settings that are not the provider's template value
Edited(settings, provider) ==
    {k \in DOMAIN settings :
        k \notin DOMAIN settingsTemplates[provider]
        \/ settings[k] # settingsTemplates[provider][k]}

\* updateSetting(key, value), from an input renderSettings shows
UpdateSetting(key, value) ==
    /\ mounted
    /\ generator.showAdvancedSettings
    /\ <<key, value>> \in SettingsFields(generator.provider)
    /\ LET s == Spread(generator.settings, key, value)
       IN  /\ s # generator.settings
           /\ Cardinality(Edited(s, generator.provider)) <= MaxEdits
           /\ generator' = [generator EXCEPT !.settings = s]
    /\ UNCHANGED <<activeTab, mounts, cleanup, timers, generateReqs,
                   statusReqs, tasksCreated,
                   modalVars>>

\* the reset without its setError('')
ResetForGenerationKeepingError(g) ==
    [g EXCEPT !.loading = TRUE, !.taskId = noId,
              !.taskStatus = null, !.generatedVideo = null]

\* the state handleGenerateVideo sets before it sends the request
ResetForGeneration(g) ==
    [g EXCEPT !.loading = TRUE, !.error = "", !.taskId = noId,
              !.taskStatus = null, !.generatedVideo = null]

\* the check without its trim()
PromptIsEmptyUntrimmed(prompt) == prompt = <<>>

\* if (!prompt.trim())
PromptIsEmpty(prompt) == Trim(prompt) = <<>>

\* handleGenerateVideo up to its await
HandleGenerateVideo ==
    /\ mounted
    /\ IF PromptIsEmpty(generator.prompt)
       THEN /\ generator' = [generator EXCEPT !.error = PromptMissing]
            /\ UNCHANGED <<cleanup, timers, generateReqs>>
       ELSE /\ BagCardinality(generateReqs) < MaxInFlight
            /\ LET g == ResetForGeneration(generator)
                   e == IF g.taskId # generator.taskId
                        THEN TaskIdEffect(g, cleanup, timers)
                        ELSE [timers |-> timers, generator |-> g,
                              cleanup |-> cleanup]
               IN  /\ generator' = e.generator
                   /\ cleanup' = e.cleanup
                   /\ timers' = e.timers
            /\ generateReqs' = generateReqs (+) SetToBag({
                   [live |-> TRUE,
                    prompt |-> generator.prompt,
                    provider |-> generator.provider,
                    settings |-> generator.settings]})
    /\ UNCHANGED <<activeTab, mounts, statusReqs, tasksCreated,
                   modalVars>>

\* generate-button: disabled={loading || !prompt.trim()}
GenerateDisabled == generator.loading \/ PromptIsEmpty(generator.prompt)

\* a click on the generate button submits the form
ClickGenerate ==
    /\ ~GenerateDisabled
    /\ HandleGenerateVideo

\* a submit event dispatched on the form itself (form.requestSubmit(), a
\* test's fireEvent.submit): the handler runs whatever the button's state
SubmitForm == HandleGenerateVideo

\* one request of the bag settles
Settle(B, r) == B (-) SetToBag({r})

\* handleGenerateVideo after its await: setTaskId(response.data.task_id)
GenerateSucceeds(r) ==
    /\ BagIn(r, generateReqs)
    /\ tasksCreated < MaxTasks
    /\ tasksCreated' = tasksCreated + 1
    /\ generateReqs' = Settle(generateReqs, r)
    /\ IF r.live
       THEN LET e == TaskIdEffect([generator EXCEPT !.taskId = tasksCreated + 1],
                                  cleanup, timers)
            IN  /\ generator' = e.generator
                /\ cleanup' = e.cleanup
                /\ timers' = e.timers
       ELSE UNCHANGED <<generator, cleanup, timers>>
    /\ UNCHANGED <<activeTab, mounts, statusReqs,
                   modalVars>>

\* the catch sending the request again
GenerateFailsRetrying(r, detail) ==
    /\ BagIn(r, generateReqs)
    /\ generateReqs' = generateReqs
    /\ IF r.live
       THEN generator' = [generator EXCEPT !.error = GenerateError(detail)]
       ELSE UNCHANGED generator
    /\ UNCHANGED <<activeTab, mounts, cleanup, timers, statusReqs, tasksCreated,
                   modalVars>>

\* the catch without its setLoading(false)
GenerateFailsStillLoading(r, detail) ==
    /\ BagIn(r, generateReqs)
    /\ generateReqs' = Settle(generateReqs, r)
    /\ IF r.live
       THEN generator' = [generator EXCEPT !.error = GenerateError(detail)]
       ELSE UNCHANGED generator
    /\ UNCHANGED <<activeTab, mounts, cleanup, timers, statusReqs, tasksCreated,
                   modalVars>>

\* handleGenerateVideo's catch
GenerateFails(r, detail) ==
    /\ BagIn(r, generateReqs)
    /\ generateReqs' = Settle(generateReqs, r)
    /\ IF r.live
       THEN generator' = [generator EXCEPT !.error = GenerateError(detail),
                                           !.loading = FALSE]
       ELSE UNCHANGED generator
    /\ UNCHANGED <<activeTab, mounts, cleanup, timers, statusReqs, tasksCreated,
                   modalVars>>

\* a tick of an interval: checkTaskStatus up to its await
Tick(t) ==
    /\ t \in timers
    /\ t.taskId # noId
    /\ BagCardinality(statusReqs) < MaxInFlight
    /\ statusReqs' = statusReqs (+) SetToBag({
           [live |-> t.live, taskId |-> t.taskId,
            statusInterval |-> t.statusInterval]})
    /\ UNCHANGED <<activeTab, mounts, generator, cleanup, timers,
                   generateReqs, tasksCreated,
                   modalVars>>

\* the handler dropping a response that reports less progress than the
\* status it finds
StatusSucceedsInOrder(r, body) ==
    /\ BagIn(r, statusReqs)
    /\ body \in StatusBodies
    /\ statusReqs' = Settle(statusReqs, r)
    /\ IF r.live /\ (generator.taskStatus = null
                      \/ body.progress >= generator.taskStatus.progress)
       THEN LET e == TaskStatusEffect([generator EXCEPT !.taskStatus = body],
                                      timers)
            IN  /\ generator' = e.generator
                /\ timers' = e.timers
       ELSE UNCHANGED <<generator, timers>>
    /\ UNCHANGED <<activeTab, mounts, cleanup, generateReqs, tasksCreated,
                   modalVars>>

\* checkTaskStatus after its await: setTaskStatus(response.data), and the
\* [taskStatus] effect
StatusSucceeds(r, body) ==
    /\ BagIn(r, statusReqs)
    /\ body \in StatusBodies
    /\ statusReqs' = Settle(statusReqs, r)
    /\ IF r.live
       THEN LET e == TaskStatusEffect([generator EXCEPT !.taskStatus = body],
                                      timers)
            IN  /\ generator' = e.generator
                /\ timers' = e.timers
       ELSE UNCHANGED <<generator, timers>>
    /\ UNCHANGED <<activeTab, mounts, cleanup, generateReqs, tasksCreated,
                   modalVars>>

\* if (statusInterval) in checkTaskStatus's catch: the statusInterval of the
\* render the callback was created in
CatchClears(statusInterval) == statusInterval # noId

\* the catch dropping the status it has
StatusFailsForgetting(r) ==
    /\ BagIn(r, statusReqs)
    /\ statusReqs' = Settle(statusReqs, r)
    /\ LET stop == CatchClears(r.statusInterval)
       IN  /\ timers' = IF stop THEN ClearInterval(timers, r.statusInterval)
                        ELSE timers
           /\ IF r.live
              THEN generator' =
                     [generator EXCEPT !.error = StatusCheckFailed,
                                       !.taskStatus = null,
                                       !.statusInterval = IF stop THEN noId ELSE @]
              ELSE UNCHANGED generator
    /\ UNCHANGED <<activeTab, mounts, cleanup, generateReqs, tasksCreated,
                   modalVars>>

\* checkTaskStatus's catch
StatusFails(r) ==
    /\ BagIn(r, statusReqs)
    /\ statusReqs' = Settle(statusReqs, r)
    /\ LET stop == CatchClears(r.statusInterval)
       IN  /\ timers' = IF stop THEN ClearInterval(timers, r.statusInterval)
                        ELSE timers
           /\ IF r.live
              THEN generator' =
                     [generator EXCEPT !.error = StatusCheckFailed,
                                       !.statusInterval = IF stop THEN noId ELSE @]
              ELSE UNCHANGED generator
    /\ UNCHANGED <<activeTab, mounts, cleanup, generateReqs, tasksCreated,
                   modalVars>>

----------------------------------------------------------------------------
(* AIModal *)

ModalInit ==
    [prompt |-> <<>>,
     response |-> "",
     loading |-> FALSE,
     error |-> "",
     provider |-> "openai",
     video |-> null,
     showVideoViewer |-> FALSE]

ModalProviders == {"openai", "anthropic", "deepseek"}

\* files the file dialog can hand to the input's onChange; type is the
\* declared MIME type, "" when the browser knows none
Files ==
    {[name |-> "clip.mp4",
      type |-> <<"v", "i", "d", "e", "o", "/", "m", "p", "4">>],
     [name |-> "photo.png",
      type |-> <<"i", "m", "a", "g", "e", "/", "p", "n", "g">>],
     [name |-> "notes", type |-> <<>>]}

\* result.data.result of the process and analyze-video endpoints
Results == {"answer one", "answer two"}

\* result.data of the upload-video endpoint for an uploaded file
Uploads(file) ==
    {[file_id |-> id, filename |-> file.name] : id \in {"upload-1", "upload-2"}}

InvalidVideo == "Veuillez sélectionner un fichier vidéo valide."
UploadFailed == "Erreur lors de l'upload de la vidéo. Veuillez réessayer."

\* the message without the server's detail
SubmitErrorGeneric(detail) == "Erreur: Communication avec l'API impossible"

SubmitError(detail) ==
    "Erreur: " \o (IF detail # "" THEN detail
                   ELSE "Communication avec l'API impossible")

\* String.prototype.startsWith
StartsWith(s, prefix) ==
    /\ Len(s) >= Len(prefix)
    /\ SubSeq(s, 1, Len(prefix)) = prefix

\* the check letting a file without a declared type through as well
IsVideoTypeOrUnknown(type) ==
    type = <<>> \/ StartsWith(type, <<"v", "i", "d", "e", "o", "/">>)

\* file.type.startsWith('video/')
IsVideoType(type) == StartsWith(type, <<"v", "i", "d", "e", "o", "/">>)

\* VideoViewer: useState(true), useState('')
ViewerInit(videoId) == [videoId |-> videoId, loading |-> TRUE, error |-> ""]

VideoErrorMessage == "Erreur lors du chargement de la vidéo"

\* the effect without its setError('')
VideoIdEffectKeepingError(v, videoId) ==
    [v EXCEPT !.videoId = videoId, !.loading = TRUE]

\* VideoViewer: useEffect(..., [videoId]), on a render with another videoId
VideoIdEffect(v, videoId) ==
    [v EXCEPT !.videoId = videoId, !.loading = TRUE, !.error = ""]

\* {showVideoViewer && video && <VideoViewer videoId={video.file_id} />}: the
\* props of the VideoViewer an AIModal in state m renders, null when it
\* renders none
ViewerProps(isOpen, m) ==
    IF isOpen /\ m.showVideoViewer /\ m.video # null
    THEN [videoId |-> m.video.file_id]
    ELSE null

\* the VideoViewer after a render of its parent with these props: unmounted,
\* mounted anew, or kept with the [videoId] effect run when videoId changed
VideoViewer(v, props) ==
    IF props = null THEN null
    ELSE IF v = null THEN ViewerInit(props.videoId)
    ELSE IF v.videoId # props.videoId THEN VideoIdEffect(v, props.videoId)
    ELSE v

\* the render of the AIModal that follows each of its events
RenderViewer == viewer' = VideoViewer(viewer, ViewerProps(isModalOpen', modal'))

\* handleVideoLoaded, the video element's onLoadedData
HandleVideoLoaded ==
    /\ viewer # null
    /\ viewer' = [viewer EXCEPT !.loading = FALSE]
    /\ UNCHANGED <<activeTab, generatorVars, isModalOpen, modal, modalReqs>>

\* handleVideoError, the video element's onError
HandleVideoError ==
    /\ viewer # null
    /\ viewer' = [viewer EXCEPT !.loading = FALSE, !.error = VideoErrorMessage]
    /\ UNCHANGED <<activeTab, generatorVars, isModalOpen, modal, modalReqs>>

\* App: the 'Ouvrir l'Assistant IA' button of the home tab
OpenModal ==
    /\ activeTab = "home"
    /\ ~isModalOpen
    /\ isModalOpen' = TRUE
    /\ UNCHANGED <<activeTab, generatorVars, modal, modalReqs>>
    /\ RenderViewer

\* the modal unmounted when it is closed: its state dropped, the setState
\* calls of its requests without effect
CloseModalUnmounting ==
    /\ isModalOpen
    /\ isModalOpen' = FALSE
    /\ modal' = ModalInit
    /\ modalReqs' = EmptyBag
    /\ UNCHANGED <<activeTab, generatorVars>>
    /\ RenderViewer

\* the close button of the modal
CloseModal ==
    /\ isModalOpen
    /\ isModalOpen' = FALSE
    /\ UNCHANGED <<activeTab, generatorVars, modal, modalReqs>>
    /\ RenderViewer

\* textarea onChange, disabled={loading}
ModalSetPrompt(p) ==
    /\ isModalOpen
    /\ ~modal.loading
    /\ p # modal.prompt
    /\ modal' = [modal EXCEPT !.prompt = p]
    /\ UNCHANGED <<activeTab, generatorVars, isModalOpen, modalReqs>>
    /\ RenderViewer

\* select onChange, disabled={loading}
ModalSetProvider(p) ==
    /\ isModalOpen
    /\ ~modal.loading
    /\ p # modal.provider
    /\ modal' = [modal EXCEPT !.provider = p]
    /\ UNCHANGED <<activeTab, generatorVars, isModalOpen, modalReqs>>
    /\ RenderViewer

\* the choice of endpoint made on the shown viewer instead of the stored video
SubmitRequestWhenShown(m) ==
    IF m.video # null /\ m.showVideoViewer
    THEN [endpoint |-> "/api/analyze-video",
          data |-> [video_id |-> m.video.file_id, prompt |-> m.prompt,
                    provider |-> m.provider]]
    ELSE [endpoint |-> "/api/process",
          data |-> [prompt |-> m.prompt, provider |-> m.provider]]

\* the endpoint and the body handleSubmit posts
SubmitRequest(m) ==
    IF m.video # null
    THEN [endpoint |-> "/api/analyze-video",
          data |-> [video_id |-> m.video.file_id, prompt |-> m.prompt,
                    provider |-> m.provider]]
    ELSE [endpoint |-> "/api/process",
          data |-> [prompt |-> m.prompt, provider |-> m.provider]]

\* the handler clearing the answer shown when a new prompt is sent
HandleSubmitClearing ==
    /\ isModalOpen
    /\ IF PromptIsEmpty(modal.prompt)
       THEN UNCHANGED <<modal, modalReqs>>
       ELSE /\ BagCardinality(modalReqs) < MaxInFlight
            /\ modal' = [modal EXCEPT !.loading = TRUE, !.error = "",
                                      !.response = ""]
            /\ modalReqs' = modalReqs (+) SetToBag({SubmitRequest(modal)})
    /\ UNCHANGED <<activeTab, generatorVars, isModalOpen>>
    /\ RenderViewer

\* handleSubmit up to its await
HandleSubmit ==
    /\ isModalOpen
    /\ IF PromptIsEmpty(modal.prompt)
       THEN UNCHANGED <<modal, modalReqs>>
       ELSE /\ BagCardinality(modalReqs) < MaxInFlight
            /\ modal' = [modal EXCEPT !.loading = TRUE, !.error = ""]
            /\ modalReqs' = modalReqs (+) SetToBag({SubmitRequest(modal)})
    /\ UNCHANGED <<activeTab, generatorVars, isModalOpen>>
    /\ RenderViewer

\* the button disabled on the empty prompt alone
SubmitDisabledOnEmptyPrompt == PromptIsEmpty(modal.prompt)

\* submit-button: disabled={loading || !prompt.trim()}
SubmitDisabled == modal.loading \/ PromptIsEmpty(modal.prompt)

\* a click on the submit button submits the form
ClickSubmit ==
    /\ ~SubmitDisabled
    /\ HandleSubmit

\* a submit event dispatched on the modal's form itself
ModalSubmitForm == HandleSubmit

\* the handler dropping the stored video when a new upload starts
HandleVideoUploadReplacing(file) ==
    /\ isModalOpen
    /\ IF file = null
       THEN UNCHANGED <<modal, modalReqs>>
       ELSE IF ~IsVideoType(file.type)
       THEN /\ modal' = [modal EXCEPT !.error = InvalidVideo]
            /\ UNCHANGED modalReqs
       ELSE /\ BagCardinality(modalReqs) < MaxInFlight
            /\ modal' = [modal EXCEPT !.loading = TRUE, !.error = "",
                                      !.video = null]
            /\ modalReqs' = modalReqs (+) SetToBag({
                   [endpoint |-> "/api/upload-video", data |-> [file |-> file]]})
    /\ UNCHANGED <<activeTab, generatorVars, isModalOpen>>
    /\ RenderViewer

\* handleVideoUpload up to its await, for the file the input reports
HandleVideoUpload(file) ==
    /\ isModalOpen
    /\ IF file = null
       THEN UNCHANGED <<modal, modalReqs>>
       ELSE IF ~IsVideoType(file.type)
       THEN /\ modal' = [modal EXCEPT !.error = InvalidVideo]
            /\ UNCHANGED modalReqs
       ELSE /\ BagCardinality(modalReqs) < MaxInFlight
            /\ modal' = [modal EXCEPT !.loading = TRUE, !.error = ""]
            /\ modalReqs' = modalReqs (+) SetToBag({
                   [endpoint |-> "/api/upload-video", data |-> [file |-> file]]})
    /\ UNCHANGED <<activeTab, generatorVars, isModalOpen>>
    /\ RenderViewer

\* upload-button: disabled={loading}; its click opens the file dialog of the
\* hidden input, whose onChange is handleVideoUpload
SelectFile(file) ==
    /\ ~modal.loading
    /\ HandleVideoUpload(file)

\* view-video-button, rendered when a video is stored
ToggleVideoViewer ==
    /\ isModalOpen
    /\ modal.video # null
    /\ modal' = [modal EXCEPT !.showVideoViewer = ~@]
    /\ UNCHANGED <<activeTab, generatorVars, isModalOpen, modalReqs>>
    /\ RenderViewer

IsUpload(r) == r.endpoint = "/api/upload-video"

\* handleSubmit after its await: setResponse, then finally
SubmitSucceeds(r, result) ==
    /\ BagIn(r, modalReqs)
    /\ ~IsUpload(r)
    /\ modalReqs' = Settle(modalReqs, r)
    /\ modal' = [modal EXCEPT !.response = result, !.loading = FALSE]
    /\ UNCHANGED <<activeTab, generatorVars, isModalOpen>>
    /\ RenderViewer

\* handleSubmit's catch, then finally
SubmitFails(r, detail) ==
    /\ BagIn(r, modalReqs)
    /\ ~IsUpload(r)
    /\ modalReqs' = Settle(modalReqs, r)
    /\ modal' = [modal EXCEPT !.error = SubmitError(detail), !.loading = FALSE]
    /\ UNCHANGED <<activeTab, generatorVars, isModalOpen>>
    /\ RenderViewer

\* handleVideoUpload after its await: setVideo, setShowVideoViewer, finally
UploadSucceeds(r, data) ==
    /\ BagIn(r, modalReqs)
    /\ IsUpload(r)
    /\ data \in Uploads(r.data.file)
    /\ modalReqs' = Settle(modalReqs, r)
    /\ modal' = [modal EXCEPT !.video = data, !.showVideoViewer = TRUE,
                              !.loading = FALSE]
    /\ UNCHANGED <<activeTab, generatorVars, isModalOpen>>
    /\ RenderViewer

\* the catch dropping the stored video as well
UploadFailsDroppingVideo(r) ==
    /\ BagIn(r, modalReqs)
    /\ IsUpload(r)
    /\ modalReqs' = Settle(modalReqs, r)
    /\ modal' = [modal EXCEPT !.error = UploadFailed, !.loading = FALSE,
                              !.video = null, !.showVideoViewer = FALSE]
    /\ UNCHANGED <<activeTab, generatorVars, isModalOpen>>
    /\ RenderViewer

\* handleVideoUpload's catch, then finally
UploadFails(r) ==
    /\ BagIn(r, modalReqs)
    /\ IsUpload(r)
    /\ modalReqs' = Settle(modalReqs, r)
    /\ modal' = [modal EXCEPT !.error = UploadFailed, !.loading = FALSE]
    /\ UNCHANGED <<activeTab, generatorVars, isModalOpen>>
    /\ RenderViewer

----------------------------------------------------------------------------
(* The scripted backend of the status endpoint: successive polls are answered
   pending, running 0.3, running 0.7, completed with video_info, and each
   answer is applied before the next tick *)

ScriptNext(s) ==
    CASE s = null -> Pending
      [] s = Pending -> Running30
      [] s = Running30 -> Running70
      [] OTHER -> Completed

ScriptedTick(t) ==
    /\ statusReqs = EmptyBag
    /\ Tick(t)

ScriptedStatus(r) == StatusSucceeds(r, ScriptNext(generator.taskStatus))

----------------------------------------------------------------------------
(* Specifications *)

Init ==
    /\ activeTab = "home"
    /\ mounts = 0
    /\ generator = GeneratorInit
    /\ cleanup = noId
    /\ timers = {}
    /\ generateReqs = EmptyBag
    /\ statusReqs = EmptyBag
    /\ tasksCreated = 0
    /\ isModalOpen = FALSE
    /\ modal = ModalInit
    /\ modalReqs = EmptyBag
    /\ viewer = null

\* the nav buttons of App
Navigate == \E tab \in {"home", "video-generator"} : SetActiveTab(tab)

\* the prompt and the provider of the generator form
EditForm ==
    \/ \E p \in Prompts : SetPrompt(p)
    \/ \E p \in Providers : SetProvider(p)

\* the advanced settings panel
EditSettings ==
    \/ ToggleAdvancedSettings
    \/ \E p \in Providers : \E f \in SettingsFields(p) : UpdateSetting(f[1], f[2])

\* the generate-video request settles
GenerateSettles ==
    \/ \E r \in BagToSet(generateReqs) : GenerateSucceeds(r)
    \/ \E r \in BagToSet(generateReqs) : \E d \in Details : GenerateFails(r, d)

\* the poll timer and its status requests
Poll ==
    \/ \E t \in timers : Tick(t)
    \/ \E r \in BagToSet(statusReqs) : \E b \in StatusBodies : StatusSucceeds(r, b)
    \/ \E r \in BagToSet(statusReqs) : StatusFails(r)

\* The generator as a user of the page drives it, the settings left as the
\* provider effect sets them
Next ==
    \/ Navigate
    \/ EditForm
    \/ ClickGenerate
    \/ GenerateSettles
    \/ Poll

Spec == Init /\ [][Next]_vars

\* a tick of the interval of the mounted instance
LiveTick == \E t \in timers : t.live /\ Tick(t)

\* a status request settles
StatusSettles ==
    \E r \in BagToSet(statusReqs) :
        \/ \E b \in StatusBodies : StatusSucceeds(r, b)
        \/ StatusFails(r)

\* The same with time passing: an active interval fires again and again, and
\* every status request is settled
SpecPoll ==
    /\ Init
    /\ [][Next]_vars
    /\ SF_vars(LiveTick)
    /\ WF_vars(StatusSettles)

\* The generator with submit events dispatched on the form itself
NextForms ==
    \/ Navigate
    \/ \E p \in Prompts : SetPrompt(p)
    \/ SubmitForm
    \/ GenerateSettles
    \/ Poll

SpecForms == Init /\ [][NextForms]_vars

\* The generator form with its settings panel, up to the task id
NextSettings ==
    \/ Navigate
    \/ EditForm
    \/ EditSettings
    \/ ClickGenerate
    \/ GenerateSettles

SpecSettings == Init /\ [][NextSettings]_vars

\* One generator against the scripted backend.  setInterval fires as long as
\* the interval is active and the backend answers every request.
NextScript ==
    \/ SetActiveTab("video-generator")
    \/ EditForm
    \/ EditSettings
    \/ ClickGenerate
    \/ \E r \in BagToSet(generateReqs) : GenerateSucceeds(r)
    \/ \E t \in timers : ScriptedTick(t)
    \/ \E r \in BagToSet(statusReqs) : ScriptedStatus(r)

SpecScript ==
    /\ Init
    /\ [][NextScript]_vars
    /\ WF_vars(\E r \in BagToSet(generateReqs) : GenerateSucceeds(r))
    /\ WF_vars(\E t \in timers : ScriptedTick(t))
    /\ WF_vars(\E r \in BagToSet(statusReqs) : ScriptedStatus(r))

\* the modal is opened and closed
ShowModal ==
    \/ OpenModal
    \/ CloseModal

\* the prompt and the provider of the modal
EditModal ==
    \/ \E p \in Prompts : ModalSetPrompt(p)
    \/ \E p \in ModalProviders : ModalSetProvider(p)

\* a process or analyze-video request settles
SubmitSettles ==
    \/ \E r \in BagToSet(modalReqs) : \E x \in Results : SubmitSucceeds(r, x)
    \/ \E r \in BagToSet(modalReqs) : \E d \in Details : SubmitFails(r, d)

\* an upload-video request settles
UploadSettles ==
    \/ \E r \in BagToSet(modalReqs) :
          \E f \in Files : \E d \in Uploads(f) : UploadSucceeds(r, d)
    \/ \E r \in BagToSet(modalReqs) : UploadFails(r)

\* The modal as a user of the page drives it
NextModal ==
    \/ ShowModal
    \/ EditModal
    \/ ClickSubmit
    \/ \E f \in Files \cup {null} : SelectFile(f)
    \/ ToggleVideoViewer
    \/ SubmitSettles
    \/ UploadSettles

SpecModal == Init /\ [][NextModal]_vars

\* The modal as a user of the page drives it, with the events of the video
\* element of the viewer it shows
NextViewer ==
    \/ NextModal
    \/ HandleVideoLoaded
    \/ HandleVideoError

SpecViewer == Init /\ [][NextViewer]_vars

\* Both forms with submit events dispatched on the forms themselves, up to
\* the settlement of the requests they send
NextSubmit ==
    \/ Navigate
    \/ \E p \in Prompts : SetPrompt(p)
    \/ SubmitForm
    \/ GenerateSettles
    \/ ShowModal
    \/ \E p \in Prompts : ModalSetPrompt(p)
    \/ ModalSubmitForm
    \/ SubmitSettles

SpecSubmit == Init /\ [][NextSubmit]_vars

\* Both views as a user of the page drives them, up to the settlement of the
\* generate-video, process, analyze-video and upload-video requests
NextRequests ==
    \/ Navigate
    \/ \E p \in Prompts : SetPrompt(p)
    \/ ClickGenerate
    \/ GenerateSettles
    \/ ShowModal
    \/ \E p \in Prompts : ModalSetPrompt(p)
    \/ ClickSubmit
    \/ \E f \in Files \cup {null} : SelectFile(f)
    \/ SubmitSettles
    \/ UploadSettles

SpecRequests == Init /\ [][NextRequests]_vars

----------------------------------------------------------------------------
(* Properties of the Video Generation View *)

\* the timers and requests of the mounted instance
LiveTimers == {t \in timers : t.live}
LiveStatusReqs == {r \in BagToSet(statusReqs) : r.live}
LiveGenerateReqs == {r \in BagToSet(generateReqs) : r.live}

RECURSIVE CopiesOf(_, _)
CopiesOf(S, B) ==
    IF S = {} THEN 0
    ELSE LET r == CHOOSE x \in S : TRUE
         IN  CopiesIn(r, B) + CopiesOf(S \ {r}, B)

LiveStatusCount == CopiesOf(LiveStatusReqs, statusReqs)

\* the poll timer of the current task was started and has been stopped
TimerStopped ==
    /\ mounted
    /\ generator.taskId # noId
    /\ generator.statusInterval = noId

\* C1: when a 'completed' or 'failed' status has been applied the poll timer
\* is cleared, and a cleared timer of a task stays cleared: no tick of the
\* instance issues another status request for that task
C1Theorem ==
    [][ /\ (mounted' /\ IsTerminal(generator'.taskStatus)) =>
               (LiveTimers' = {} /\ TimerStopped')
        /\ (TimerStopped /\ mounted' /\ generator'.taskId = generator.taskId) =>
               /\ TimerStopped'
               /\ LiveTimers' = {}
               /\ LiveStatusCount' <= LiveStatusCount ]_vars

C1Witness ==
    /\ mounted
    /\ IsTerminal(generator.taskStatus)
    /\ generator.taskStatus.status = "failed"
    /\ TimerStopped
    /\ LiveTimers = {}

\* C2: a mounted VideoGenerator has at most one active poll timer
C2Theorem == Cardinality(LiveTimers) <= 1

C2Witness ==
    /\ mounted
    /\ tasksCreated >= 2
    /\ generator.taskId = tasksCreated
    /\ Cardinality(LiveTimers) = 1

\* C3: after the VideoGenerator has unmounted none of its timers is active
C3Claim == \A t \in timers : t.live

\* C4: when a status request has failed (the status-check error is shown)
\* the poll timer of the instance is cleared
C4Claim ==
    (mounted /\ generator.error = StatusCheckFailed) => LiveTimers = {}

C6Done ==
    /\ generator.generatedVideo = Completed.video_info
    /\ generator.taskStatus = Completed
    /\ generator.statusInterval = noId
    /\ timers = {}
    /\ statusReqs = EmptyBag

C6Theorem == (generateReqs # EmptyBag) ~> [](mounted /\ C6Done)

C6Witness == mounted /\ C6Done

\* C9: a change of provider leaves settings equal to the provider's template,
\* and the settings of every generate-video request have exactly the keys of
\* the template of the request's provider
C9Theorem ==
    [][ /\ generator'.provider # generator.provider =>
               generator'.settings = settingsTemplates[generator'.provider]
        /\ \A r \in BagToSet(generateReqs') :
               DOMAIN r.settings = DOMAIN settingsTemplates[r.provider] ]_vars

C9Witness ==
    /\ mounted
    /\ generator.provider = "stability"
    /\ \E r \in LiveGenerateReqs :
           /\ r.provider = "stability"
           /\ r.settings # settingsTemplates["stability"]
           /\ DOMAIN r.settings = DOMAIN settingsTemplates["stability"]

\* C10: a 'completed' or 'failed' taskStatus keeps its status until a new
\* submission (or a new instance) resets it
C10Claim ==
    [][ (mounted /\ IsTerminal(generator.taskStatus)
         /\ mounted' /\ generator'.taskStatus # null) =>
            generator'.taskStatus.status = generator.taskStatus.status ]_vars

\* the response carries a video: status 'completed' with a video_info
HasVideo(body) == body.status = "completed" /\ "video_info" \in DOMAIN body

\* C11: a 'completed' response applied to the instance stops the timer, and
\* generatedVideo becomes its video_info when it has one; a 'completed'
\* response without video_info and a 'failed' response leave generatedVideo
\* as it was; generatedVideo becomes non-null only in a step that applies a
\* 'completed' response with video_info to a request of the current task, and
\* it is null whenever the task id changes
C11Theorem ==
    [][ /\ \A r \in BagToSet(statusReqs) : \A b \in StatusBodies :
              (r.live /\ StatusSucceeds(r, b)) =>
                  /\ b.status = "completed" =>
                         (LiveTimers' = {} /\ generator'.statusInterval = noId)
                  /\ generator'.generatedVideo =
                         IF HasVideo(b) THEN b.video_info
                         ELSE generator.generatedVideo
        /\ (mounted' /\ generator'.generatedVideo # null
            /\ generator'.generatedVideo # generator.generatedVideo) =>
               \E r \in LiveStatusReqs :
                  /\ r.taskId = generator.taskId
                  /\ generator'.taskId = generator.taskId
                  /\ statusReqs' = Settle(statusReqs, r)
                  /\ HasVideo(generator'.taskStatus)
                  /\ generator'.generatedVideo = generator'.taskStatus.video_info
        /\ generator'.taskId # generator.taskId =>
               generator'.generatedVideo = null ]_vars

\* the video of a 'completed' response is shown and the timer is stopped
C11Witness ==
    /\ mounted
    /\ generator.taskStatus = Completed
    /\ generator.generatedVideo = Completed.video_info
    /\ generator.statusInterval = noId
    /\ LiveTimers = {}

\* C18: status requests are not single-flight (two requests of the same task
\* can be outstanding), and whichever request resolves, in whatever order,
\* its response becomes taskStatus: taskStatus is the most recently resolved
\* response, and it changes only by a resolved response or the reset to null
C18Theorem ==
    [][ /\ \A r \in BagToSet(statusReqs) : \A b \in StatusBodies :
              (r.live /\ StatusSucceeds(r, b)) => generator'.taskStatus = b
        /\ generator'.taskStatus # generator.taskStatus =>
               \/ generator'.taskStatus = null
               \/ \E r \in LiveStatusReqs :
                     /\ statusReqs' = Settle(statusReqs, r)
                     /\ r.taskId = generator.taskId ]_vars

\* two status requests of the current task are outstanding, the response of
\* an earlier one applied
C18Witness ==
    /\ mounted
    /\ generator.taskStatus = Running70
    /\ \E r \in LiveStatusReqs :
           /\ r.taskId = generator.taskId
           /\ CopiesIn(r, statusReqs) >= 2

\* the step applies a 'completed' or 'failed' response to the instance
TerminalApplied ==
    /\ generator'.taskStatus # null
    /\ generator'.taskStatus.status \in {"completed", "failed"}
    /\ \E r \in LiveStatusReqs : statusReqs' = Settle(statusReqs, r)

\* C19: polling has no limit: the active timer of a mounted instance is
\* stopped only in a step that applies a terminal status, in a step in which
\* a status request fails, or by the unmount; and a timer that is never
\* stopped fires, issuing a status request, again and again for ever
C19Theorem ==
    /\ [][ \A t \in LiveTimers :
              (mounted' /\ t \notin LiveTimers') =>
                  \/ TerminalApplied
                  \/ \E r \in BagToSet(statusReqs) : StatusFails(r) ]_vars
    /\ (<>[](LiveTimers = {}) \/ []<><<LiveTick>>_vars)

\* the timer is active after both non-terminal answers and a failed status
\* request, further requests outstanding
C19Witness ==
    /\ mounted
    /\ LiveTimers # {}
    /\ generator.taskStatus = Running70
    /\ generator.error = StatusCheckFailed
    /\ LiveStatusCount >= 1

\* C20: a failed status request changes error, and nothing else of the
\* instance but the timer (statusInterval): taskStatus, taskId and
\* generatedVideo, and prompt, provider, settings and loading, stay as they
\* were; no generate-video request and no task is touched
C20Theorem ==
    [][ \A r \in BagToSet(statusReqs) :
          (r.live /\ StatusFails(r)) =>
              /\ generator'.taskStatus = generator.taskStatus
              /\ generator'.taskId = generator.taskId
              /\ generator'.generatedVideo = generator.generatedVideo
              /\ generator'.error =
                     "Erreur lors de la vérification du statut de la génération"
              /\ generator' = [generator EXCEPT
                                  !.error = generator'.error,
                                  !.statusInterval = generator'.statusInterval]
              /\ generateReqs' = generateReqs
              /\ tasksCreated' = tasksCreated ]_vars

\* a status request has failed after the video was generated: the status
\* and the video are still there
C20Witness ==
    /\ mounted
    /\ generator.error = StatusCheckFailed
    /\ generator.taskId # noId
    /\ generator.taskStatus = Completed
    /\ generator.generatedVideo = Completed.video_info

\* C21: a poll timer of the instance is started only in the step in which
\* its generate-video request succeeds, for the task id that request
\* returned; a failed generate-video request sets error to 'Erreur: ' with
\* the detail or the fallback and loading to false, and leaves taskId null;
\* while taskId is null the instance has no timer and no status request
C21Theorem ==
    [][ /\ \A t \in LiveTimers' \ LiveTimers :
              /\ \E r \in LiveGenerateReqs : GenerateSucceeds(r)
              /\ t.taskId = tasksCreated'
              /\ generator'.taskId = tasksCreated'
              /\ tasksCreated' = tasksCreated + 1
        /\ \A r \in LiveGenerateReqs : \A d \in Details :
              GenerateFails(r, d) =>
                  /\ generator'.error =
                         (IF d = ""
                          THEN "Erreur: Impossible de communiquer avec le serveur"
                          ELSE "Erreur: " \o d)
                  /\ ~generator'.loading
                  /\ generator'.taskId = noId
                  /\ generator'.statusInterval = noId
        /\ (mounted' /\ generator'.taskId = noId) =>
               /\ LiveTimers' = {}
               /\ LiveStatusCount' = 0 ]_vars

\* a generation has failed with the server's detail: the form is enabled
\* again, there is no task, no timer and no status request
C21Witness ==
    /\ mounted
    /\ generator.error = "Erreur: quota exceeded"
    /\ ~generator.loading
    /\ generator.taskId = noId
    /\ LiveTimers = {}
    /\ LiveStatusCount = 0
    /\ LiveGenerateReqs = {}

\* C22: once the generate-video request of an instance has succeeded (its
\* taskId is set) loading is true in every later state of the instance,
\* whatever status response, terminal status or poll error arrives: the
\* generate button stays disabled, prompt and provider stay as they are, and
\* the instance sends no second generate-video request and gets no other task
C22Theorem ==
    [][ /\ (mounted' /\ generator'.taskId # noId) =>
               /\ generator'.loading
               /\ GenerateDisabled'
               /\ LiveGenerateReqs' = {}
        /\ (mounted /\ generator.taskId # noId /\ mounted') =>
               /\ generator'.taskId = generator.taskId
               /\ generator'.prompt = generator.prompt
               /\ generator'.provider = generator.provider
               /\ BagCardinality(generateReqs') <= BagCardinality(generateReqs) ]_vars

\* the task has failed and a poll error has been shown: the form is still
\* in its loading state
C22Witness ==
    /\ mounted
    /\ generator.taskId # noId
    /\ generator.taskStatus = Failed
    /\ generator.error = StatusCheckFailed
    /\ generator.loading
    /\ LiveTimers = {}

\* C23: the timer callback and every status request of the mounted instance
\* carry the instance's current taskId, an id a generate-video request has
\* returned; with taskId null the instance has no status request; and
\* taskStatus is set only by the response to a request for the current task
C23Theorem ==
    [][ /\ mounted' =>
               /\ \A t \in LiveTimers' : t.taskId = generator'.taskId
               /\ \A r \in LiveStatusReqs' :
                      /\ r.taskId = generator'.taskId
                      /\ r.taskId \in 1..tasksCreated'
               /\ generator'.taskId = noId =>
                      (LiveStatusCount' = 0 /\ generator'.taskStatus = null)
        /\ (\E t \in timers : t.live /\ Tick(t)) =>
               \E r \in LiveStatusReqs' :
                  /\ statusReqs' = statusReqs (+) SetToBag({r})
                  /\ r.taskId = generator.taskId
        /\ (mounted' /\ generator'.taskStatus # null
            /\ generator'.taskStatus # generator.taskStatus) =>
               \E r \in LiveStatusReqs :
                  /\ statusReqs' = Settle(statusReqs, r)
                  /\ r.taskId = generator'.taskId ]_vars

\* the instance polls its task, the second the backend created, while a
\* status request for the first task is outstanding as well
C23Witness ==
    /\ mounted
    /\ generator.taskId = 2
    /\ generator.taskStatus # null
    /\ \E r \in LiveStatusReqs : r.taskId = 2
    /\ \E r \in BagToSet(statusReqs) : ~r.live /\ r.taskId = 1

----------------------------------------------------------------------------
(* Properties of the Prompt Submission View and of the upload handler *)

\* a prompt of white space only, the empty prompt included
Blank(prompt) == \A i \in DOMAIN prompt : prompt[i] \in {" ", "\t", "\n"}

\* C7: a submission with an empty or white-space prompt sends no request:
\* handleGenerateVideo no generate-video request (and no task id, no timer),
\* handleSubmit no process or analyze-video request
C7Theorem ==
    [][ /\ (Blank(generator.prompt) /\ SubmitForm) =>
               /\ generateReqs' = generateReqs
               /\ statusReqs' = statusReqs
               /\ timers' = timers
               /\ generator'.taskId = generator.taskId
        /\ (Blank(modal.prompt) /\ ModalSubmitForm) =>
               /\ modalReqs' = modalReqs
               /\ modal' = modal
        /\ \A r \in BagToSet(generateReqs') : ~Blank(r.prompt)
        /\ \A r \in BagToSet(modalReqs') : ~Blank(r.data.prompt) ]_vars

C7Witness ==
    /\ mounted
    /\ generator.prompt = <<" ">>
    /\ generator.error = PromptMissing
    /\ generator.taskId = noId
    /\ timers = {}
    /\ generateReqs = EmptyBag
    /\ modal.prompt = <<" ">>
    /\ modalReqs = EmptyBag

\* the declared type does not start with 'video/'
NotVideo(file) ==
    \/ Len(file.type) < 6
    \/ <<file.type[1], file.type[2], file.type[3], file.type[4],
         file.type[5], file.type[6]>> # <<"v", "i", "d", "e", "o", "/">>

\* C8: the selection of a file whose type does not start with 'video/' sends
\* no upload request and sets the validation message; video, showVideoViewer
\* and loading (and every other field) are left as they were
C8Theorem ==
    [][ \A f \in Files :
          (NotVideo(f) /\ HandleVideoUpload(f)) =>
              /\ modalReqs' = modalReqs
              /\ modal'.error = InvalidVideo
              /\ modal'.video = modal.video
              /\ modal'.showVideoViewer = modal.showVideoViewer
              /\ modal'.loading = modal.loading ]_vars

C8Witness ==
    /\ modal.error = InvalidVideo
    /\ modal.video # null
    /\ modal.showVideoViewer
    /\ ~modal.loading
    /\ modalReqs = EmptyBag

\* C12: a submission with a non-empty prompt adds exactly one request: a POST
\* to /api/process with {prompt, provider} when video is null, a POST to
\* /api/analyze-video with {video_id, prompt, provider}, video_id the file_id
\* of the stored video, when it is not
C12Theorem ==
    [][ (ClickSubmit /\ ~Blank(modal.prompt)) =>
           /\ BagCardinality(modalReqs') = BagCardinality(modalReqs) + 1
           /\ \E r \in BagToSet(modalReqs') :
                  /\ modalReqs' = modalReqs (+) SetToBag({r})
                  /\ r.data.prompt = modal.prompt
                  /\ r.data.provider = modal.provider
                  /\ IF modal.video = null
                     THEN /\ r.endpoint = "/api/process"
                          /\ DOMAIN r.data = {"prompt", "provider"}
                     ELSE /\ r.endpoint = "/api/analyze-video"
                          /\ DOMAIN r.data = {"video_id", "prompt", "provider"}
                          /\ r.data.video_id = modal.video.file_id ]_vars

\* an analyze-video request for the stored video is in flight, the viewer
\* hidden and an answer of an earlier request shown
C12Witness ==
    /\ modal.video # null
    /\ ~modal.showVideoViewer
    /\ modal.response # ""
    /\ \E r \in BagToSet(modalReqs) :
           /\ r.endpoint = "/api/analyze-video"
           /\ r.data.video_id = modal.video.file_id
           /\ r.data.provider = "anthropic"

\* C13: loading is true exactly while a process, analyze-video or upload
\* request of the modal is in flight, and at most one such request is in
\* flight
C13Theorem ==
    /\ modal.loading <=> modalReqs # EmptyBag
    /\ BagCardinality(modalReqs) <= 1

\* an upload is in flight after an earlier upload has stored a video and an
\* earlier prompt has been answered
C13Witness ==
    /\ modal.loading
    /\ modal.video # null
    /\ modal.response # ""
    /\ \E r \in BagToSet(modalReqs) : IsUpload(r)

\* C14: when a process or analyze-video request succeeds, response becomes
\* the returned result and error is empty; when it fails, error becomes
\* 'Erreur: ' followed by the detail of the failure, or by 'Communication
\* avec l'API impossible' when the failure has none, and response is left
\* as it was; either way the handler ends with loading false
C14Theorem ==
    [][ /\ \A r \in BagToSet(modalReqs) : \A x \in Results :
              SubmitSucceeds(r, x) =>
                  /\ modal'.response = x
                  /\ modal'.error = ""
                  /\ ~modal'.loading
        /\ \A r \in BagToSet(modalReqs) : \A d \in Details :
              SubmitFails(r, d) =>
                  /\ modal'.error =
                         (IF d = "" THEN "Erreur: Communication avec l'API impossible"
                          ELSE "Erreur: " \o d)
                  /\ modal'.response = modal.response
                  /\ ~modal'.loading ]_vars

\* a request has failed with the server's detail after an earlier answer
C14Witness ==
    /\ modal.error = "Erreur: quota exceeded"
    /\ modal.response = "answer two"
    /\ ~modal.loading
    /\ modalReqs = EmptyBag

\* C15: a failed upload leaves video and showVideoViewer (and prompt,
\* provider, response) as they were, sets the upload error message and sets
\* loading to false; a successful upload stores the returned {file_id,
\* filename} as video, sets showVideoViewer to true and loading to false
C15Theorem ==
    [][ /\ \A r \in BagToSet(modalReqs) :
              UploadFails(r) =>
                  /\ modal'.video = modal.video
                  /\ modal'.showVideoViewer = modal.showVideoViewer
                  /\ modal'.prompt = modal.prompt
                  /\ modal'.provider = modal.provider
                  /\ modal'.response = modal.response
                  /\ modal'.error =
                         "Erreur lors de l'upload de la vidéo. Veuillez réessayer."
                  /\ ~modal'.loading
        /\ \A r \in BagToSet(modalReqs) :
              \A d \in UNION {Uploads(f) : f \in Files} :
                  UploadSucceeds(r, d) =>
                      /\ modal'.video = d
                      /\ DOMAIN modal'.video = {"file_id", "filename"}
                      /\ modal'.showVideoViewer
                      /\ ~modal'.loading ]_vars

\* an upload has failed with a video stored by an earlier upload, which is
\* still stored and shown
C15Witness ==
    /\ modal.error = UploadFailed
    /\ modal.video # null
    /\ modal.video.file_id = "upload-2"
    /\ modal.showVideoViewer
    /\ ~modal.loading
    /\ modalReqs = EmptyBag

\* C24: closing and opening the modal changes nothing of the AIModal's
\* state (prompt, response, error, provider, video, showVideoViewer,
\* loading) and cancels no request; a request that settles while the modal
\* is closed is applied as it is when the modal is open, and loading
\* returns to false
C24Theorem ==
    [][ /\ isModalOpen' # isModalOpen =>
               (modal' = modal /\ modalReqs' = modalReqs)
        /\ ~isModalOpen =>
               /\ \A r \in BagToSet(modalReqs) : \A x \in Results :
                      SubmitSucceeds(r, x) =>
                          (modal'.response = x /\ ~modal'.loading)
               /\ \A r \in BagToSet(modalReqs) : \A d \in Details :
                      SubmitFails(r, d) =>
                          (modal'.error # modal.error /\ ~modal'.loading)
               /\ \A r \in BagToSet(modalReqs) :
                      \A d \in UNION {Uploads(f) : f \in Files} :
                          UploadSucceeds(r, d) =>
                              (modal'.video = d /\ ~modal'.loading)
               /\ \A r \in BagToSet(modalReqs) :
                      UploadFails(r) =>
                          (modal'.error = UploadFailed /\ ~modal'.loading)
        /\ (modal.loading /\ ~modal'.loading) =>
               BagCardinality(modalReqs') < BagCardinality(modalReqs) ]_vars

\* the modal is closed with its state kept and a request in flight
C24Witness ==
    /\ ~isModalOpen
    /\ modal.loading
    /\ modalReqs # EmptyBag
    /\ modal.prompt # <<>>
    /\ modal.response # ""
    /\ modal.video # null
    /\ modal.provider # "openai"

\* C25: video is never set back to null: once it is non-null it stays so,
\* from then on every prompt submission posts to /api/analyze-video, and no
\* request to /api/process is outstanding
C25Theorem ==
    [][ /\ modal.video # null => modal'.video # null
        /\ (modal.video # null /\ ClickSubmit) =>
               \E r \in BagToSet(modalReqs') :
                  /\ modalReqs' = modalReqs (+) SetToBag({r})
                  /\ r.endpoint = "/api/analyze-video"
        /\ modal'.video # null =>
               \A r \in BagToSet(modalReqs') : r.endpoint # "/api/process" ]_vars

\* a video is stored, its viewer hidden, and after an earlier answer a
\* further prompt about it is being analysed
C25Witness ==
    /\ modal.video # null
    /\ modal.video.file_id = "upload-1"
    /\ ~modal.showVideoViewer
    /\ modal.response = "answer one"
    /\ modal.loading
    /\ \E r \in BagToSet(modalReqs) : r.endpoint = "/api/analyze-video"

\* C26: response changes only in the step in which a process or
\* analyze-video request succeeds: a submission, a failed submission and
\* every step of an upload (rejected, started, succeeded, failed) leave it
\* as it was, so the last answer is held next to a new error
C26Theorem ==
    [][ /\ modal'.response # modal.response =>
               \E r \in BagToSet(modalReqs) : \E x \in Results :
                  /\ r.endpoint \in {"/api/process", "/api/analyze-video"}
                  /\ SubmitSucceeds(r, x)
                  /\ modal'.response = x
        /\ ClickSubmit => modal'.response = modal.response
        /\ (\E r \in BagToSet(modalReqs) : \E d \in Details : SubmitFails(r, d)) =>
               (modal'.response = modal.response /\ modal'.error # "")
        /\ (\E f \in Files : SelectFile(f)) => modal'.response = modal.response ]_vars

\* the answer of an earlier submission is held with the error of a failed
\* submission about the video uploaded since
C26Witness ==
    /\ modal.response = "answer one"
    /\ modal.error = "Erreur: Communication avec l'API impossible"
    /\ modal.video # null
    /\ ~modal.loading
    /\ modalReqs = EmptyBag

----------------------------------------------------------------------------
(* Properties of both views *)

\* the generate-video, process, analyze-video and upload-video requests in
\* flight
InFlight == BagCardinality(generateReqs) + BagCardinality(modalReqs)

\* the user actions that send a request
Submission ==
    \/ ClickGenerate
    \/ ClickSubmit
    \/ \E f \in Files : SelectFile(f)

\* the failure of a request
Failure ==
    \/ \E r \in BagToSet(generateReqs) : \E d \in Details : GenerateFails(r, d)
    \/ \E r \in BagToSet(modalReqs) : \E d \in Details : SubmitFails(r, d)
    \/ \E r \in BagToSet(modalReqs) : UploadFails(r)

\* C16: no request is retried: a step adds at most one generate-video,
\* process, analyze-video or upload-video request, only a user action
\* (generation submit, prompt submit, file selection) adds one, and the step
\* in which a request fails takes that request away and adds none
C16Theorem ==
    [][ /\ InFlight' <= InFlight + 1
        /\ InFlight' > InFlight => Submission
        /\ BagCardinality(generateReqs') > BagCardinality(generateReqs) =>
               ClickGenerate
        /\ BagCardinality(modalReqs') > BagCardinality(modalReqs) =>
               (ClickSubmit \/ \E f \in Files : SelectFile(f))
        /\ Failure =>
               /\ InFlight' = InFlight - 1
               /\ BagCardinality(generateReqs') <= BagCardinality(generateReqs)
               /\ BagCardinality(modalReqs') <= BagCardinality(modalReqs) ]_vars

\* a generation and an upload have failed and nothing is in flight
C16Witness ==
    /\ mounted
    /\ generator.error = GenerateError("")
    /\ ~generator.loading
    /\ modal.error = UploadFailed
    /\ ~modal.loading
    /\ InFlight = 0

----------------------------------------------------------------------------
(* Properties of the Video Viewer *)

\* the viewer is rendered and shows its loading indicator, no error
ViewerLoading(v) == v # null /\ v.loading /\ v.error = ""

\* C17: the viewer is in the loading state (loading true, error empty) when
\* it is mounted and whenever its videoId changes, whatever its state was; it
\* leaves the loading state only on the video element's loaded-data or error
\* event; and loading true implies error empty
C17Theorem ==
    [][ /\ (viewer' # null /\ viewer'.loading) => viewer'.error = ""
        /\ (viewer = null /\ viewer' # null) => ViewerLoading(viewer')
        /\ (viewer # null /\ viewer' # null
            /\ viewer'.videoId # viewer.videoId) => ViewerLoading(viewer')
        /\ (ViewerLoading(viewer) /\ ~ViewerLoading(viewer')) =>
               \/ viewer' = null
               \/ HandleVideoLoaded /\ ~viewer'.loading /\ viewer'.error = ""
               \/ HandleVideoError /\ ~viewer'.loading /\ viewer'.error # "" ]_vars

\* the viewer shows the loading indicator for the video of a later upload
C17Witness ==
    /\ ViewerLoading(viewer)
    /\ viewer.videoId = "upload-2"
    /\ modal.error = UploadFailed
    /\ isModalOpen

====
